---- MODULE Spec2Model ----
(***************************************************************************)
(* GreenLens backend: the emissions estimator and the reports (both       *)
(* revisions of emissionController.js that the repository holds) and the   *)
(* activity CRUD handlers of activityController.js.                        *)
(*                                                                         *)
(* JavaScript numbers are modelled as exact rationals plus NaN; the        *)
(* rounding of IEEE doubles is not modelled.  JavaScript values that reach  *)
(* the handlers from a JSON body are modelled by their type and content.   *)
(***************************************************************************)
EXTENDS Integers, Sequences, FiniteSets, TLC

(***************************************************************************)
(* Bounds of the model.                                                    *)
(***************************************************************************)
MaxAmount == 2

MaxId == 2

MaxInflight == 2

MaxRequests == 3

\* the hour (since Epoch) at which the server's clock stands
StartTime == 436

(***************************************************************************)
(* JavaScript numbers: a finite rational n/d in lowest terms, or NaN.      *)
(***************************************************************************)
RECURSIVE GCD(_, _)
GCD(a, b) == IF b = 0 THEN a ELSE GCD(b, a % b)

Abs(x) == IF x < 0 THEN -x ELSE x

NaN == [k |-> "nan", n |-> 0, d |-> 1]

Rat(n, d) ==
  LET g == GCD(Abs(n), d)
  IN  [k |-> "fin", n |-> n \div g, d |-> d \div g]

Int2Num(i) == Rat(i, 1)

isNaN(x) == x.k = "nan"

IsNegative(x) == x.k = "fin" /\ x.n < 0

\* the * operator on two numbers
Mul(x, y) ==
  IF isNaN(x) \/ isNaN(y) THEN NaN ELSE Rat(x.n * y.n, x.d * y.d)

\* the + operator on two numbers
Add(x, y) ==
  IF isNaN(x) \/ isNaN(y) THEN NaN ELSE Rat(x.n * y.d + y.n * x.d, x.d * y.d)

\* a number is falsy when it is 0 or NaN
NumTruthy(x) == x.k = "fin" /\ x.n # 0

(***************************************************************************)
(* JavaScript values of a request body field: undefined (field absent),    *)
(* null, a number, a string, or (from a lookup that reaches                *)
(* Object.prototype) a function.                                           *)
(***************************************************************************)
Undefined == [t |-> "undefined", num |-> NaN, str |-> ""]
Null      == [t |-> "null", num |-> NaN, str |-> ""]
FunctionV == [t |-> "function", num |-> NaN, str |-> ""]
NumV(x)   == [t |-> "number", num |-> x, str |-> ""]
StrV(s)   == [t |-> "string", num |-> NaN, str |-> s]

\* Number(s) for the strings of the model: "" is 0, a string with trailing
\* garbage is NaN
StringToNumber(s) ==
  CASE s = ""     -> Int2Num(0)
    [] s = "5"    -> Int2Num(5)
    [] s = "-5"   -> Int2Num(-5)
    [] s = "5abc" -> NaN
    [] OTHER      -> NaN

\* parseFloat(s) for the strings of the model: the longest numeric prefix,
\* NaN when there is none ("" included)
parseFloat(s) ==
  CASE s = ""     -> NaN
    [] s = "5"    -> Int2Num(5)
    [] s = "-5"   -> Int2Num(-5)
    [] s = "5abc" -> Int2Num(5)
    [] OTHER      -> NaN

\* Number(v)
Number(v) ==
  CASE v.t = "undefined" -> NaN
    [] v.t = "null"      -> Int2Num(0)
    [] v.t = "number"    -> v.num
    [] v.t = "string"    -> StringToNumber(v.str)
    [] OTHER             -> NaN

\* typeof v === 'string' ? parseFloat(v) : Number(v)
ParseOrNumber(v) ==
  IF v.t = "string" THEN parseFloat(v.str) ELSE Number(v)

\* v == null
IsNullish(v) == v.t \in {"undefined", "null"}

\* truthiness of a value
Truthy(v) ==
  CASE v.t = "undefined" -> FALSE
    [] v.t = "null"      -> FALSE
    [] v.t = "number"    -> NumTruthy(v.num)
    [] v.t = "string"    -> v.str # ""
    [] OTHER             -> TRUE

\* a || b
Or(a, b) == IF Truthy(a) THEN a ELSE b

(***************************************************************************)
(* String-valued body fields are TLA+ strings; UNDEF stands for an absent  *)
(* field, and "" for the empty string: both are falsy.                     *)
(***************************************************************************)
UNDEF == "undefined"

StrTruthy(s) == s # UNDEF /\ s # ""

StrOr(a, b) == IF StrTruthy(a) THEN a ELSE b

\* names every object literal inherits from Object.prototype
ObjectPrototypeKeys == {"constructor", "toString"}

(***************************************************************************)
(* The remote estimation service (Climatiq), reached through axios.post.   *)
(* A call ends in one of RemoteOutcomes:                                   *)
(*   ok       2xx, payload {co2e: rate x quantity}                         *)
(*   nofield  2xx, payload an object without a co2e field                  *)
(*   nobody   2xx, no payload (response.data undefined)                    *)
(*   non2xx   a non-success status: axios rejects                          *)
(*   neterr   a transport error: axios rejects                             *)
(***************************************************************************)
RemoteOutcomes == {"ok", "nofield", "nobody", "non2xx", "neterr"}

\* what the service reports for a quantity: opaque to the program; any
\* non-negative figure that differs from the local fallback will do
RemoteCo2e(factor, qty) ==
  IF factor.str = "electricity" THEN Mul(Rat(1, 2), qty) ELSE Mul(Rat(3, 10), qty)

\* await axios.post(URL, {emission_factor, parameters}, {headers}): a factor
\* that is not a string (a function is dropped by JSON) is refused by the
\* service
axiosPost(r, factor, qty) ==
  LET o == IF factor.t # "string" THEN "non2xx" ELSE r
  IN  [threw   |-> o \in {"non2xx", "neterr"},
       hasData |-> o \in {"ok", "nofield"},
       co2e    |-> IF o = "ok" THEN NumV(RemoteCo2e(factor, qty)) ELSE Undefined]

\* response.data.co2e || 0 ; reading .co2e of an absent payload throws
Co2eOrZero(resp) == IF Truthy(resp.co2e) THEN resp.co2e.num ELSE Int2Num(0)

\* the try block's axios.post and return either complete or throw
PostThrows(resp) == resp.threw \/ ~resp.hasData

(***************************************************************************)
(* Outcome of one estimate: the value returned, the number of remote calls *)
(* issued, and the factor and quantity of the request sent (if any).       *)
(***************************************************************************)
Outcome(ret, calls, factor, qty) ==
  [ret |-> ret, calls |-> calls, factor |-> factor, qty |-> qty]

Local(ret) == Outcome(ret, 0, Undefined, NaN)

(***************************************************************************)
(* Commute                                                                 *)
(***************************************************************************)
\* emissionFactors[transportMode]; the identifiers differ between the two
\* revisions, the keys and the null entries do not
emissionFactors(transportMode) ==
  CASE transportMode \in {"car", "bus", "train", "plane", "motorcycle"}
                                              -> StrV(transportMode)
    [] transportMode \in {"bicycle", "walking"} -> Null
    [] transportMode \in ObjectPrototypeKeys    -> FunctionV
    [] OTHER                                    -> Undefined

\* fallback[transportMode]
fallback(transportMode) ==
  CASE transportMode = "car"        -> NumV(Rat(21, 100))
    [] transportMode = "bus"        -> NumV(Rat(89, 1000))
    [] transportMode = "train"      -> NumV(Rat(41, 1000))
    [] transportMode = "plane"      -> NumV(Rat(255, 1000))
    [] transportMode = "motorcycle" -> NumV(Rat(113, 1000))
    [] transportMode = "bicycle"    -> NumV(Int2Num(0))
    [] transportMode = "walking"    -> NumV(Int2Num(0))
    [] transportMode \in ObjectPrototypeKeys -> FunctionV
    [] OTHER                        -> Undefined

\* (fallback[transportMode] || fallback.car) * (isNaN(distanceNum) ? 0 : distanceNum)
CommuteFallback(transportMode, distanceNum) ==
  Mul(Number(Or(fallback(transportMode), fallback("car"))),
      IF isNaN(distanceNum) THEN Int2Num(0) ELSE distanceNum)

\* first revision (part_000 lines 11-75)
calculateCommuteEmissions1(distance, transportMode, r) ==
  LET factorId    == Or(emissionFactors(transportMode), emissionFactors("car"))
      distanceNum == ParseOrNumber(distance)
      resp        == axiosPost(r, factorId, distanceNum)
  IN  IF ~Truthy(factorId) THEN Local(Int2Num(0))
      ELSE IF isNaN(distanceNum) \/ IsNegative(distanceNum)
      THEN Local(CommuteFallback(transportMode, distanceNum))
      ELSE IF PostThrows(resp)
      THEN Outcome(CommuteFallback(transportMode, distanceNum), 1, factorId, distanceNum)
      ELSE Outcome(Co2eOrZero(resp), 1, factorId, distanceNum)

\* second revision (part_000 lines 283-349)
calculateCommuteEmissions2(distance, transportMode, r) ==
  LET factor == Or(emissionFactors(transportMode), emissionFactors("car"))
      num    == Number(distance)
      resp   == axiosPost(r, factor, num)
  IN  IF ~Truthy(factor) THEN Local(Int2Num(0))
      ELSE IF isNaN(num) \/ IsNegative(num) THEN Local(Int2Num(0))
      ELSE IF PostThrows(resp)
      THEN Outcome(CommuteFallback(transportMode, num), 1, factor, num)
      ELSE Outcome(Co2eOrZero(resp), 1, factor, num)

calculateCommuteEmissions(v, distance, transportMode, r) ==
  IF v = 1 THEN calculateCommuteEmissions1(distance, transportMode, r)
           ELSE calculateCommuteEmissions2(distance, transportMode, r)

(***************************************************************************)
(* Food                                                                    *)
(***************************************************************************)
\* factors[foodType]
factors(foodType) ==
  CASE foodType = "beef"       -> NumV(Int2Num(27))
    [] foodType = "pork"       -> NumV(Rat(121, 10))
    [] foodType = "chicken"    -> NumV(Rat(69, 10))
    [] foodType = "fish"       -> NumV(Rat(51, 10))
    [] foodType = "dairy"      -> NumV(Rat(32, 10))
    [] foodType = "vegetables" -> NumV(Int2Num(2))
    [] foodType = "fruits"     -> NumV(Rat(11, 10))
    [] foodType = "grains"     -> NumV(Rat(27, 10))
    [] foodType \in ObjectPrototypeKeys -> FunctionV
    [] OTHER                   -> Undefined

\* the default parameter unit = 'kg', then the two conversions
QuantityKg(quantityNum, unit) ==
  LET u == IF unit = UNDEF THEN "kg" ELSE unit
  IN  CASE u = "g"  -> Mul(quantityNum, Rat(1, 1000))
        [] u = "lb" -> Mul(quantityNum, Rat(453592, 1000000))
        [] OTHER    -> quantityNum

\* quantityKg * (factors[foodType] || 2.0)
FoodResult(foodType, quantityNum, unit) ==
  Mul(QuantityKg(quantityNum, unit), Number(Or(factors(foodType), NumV(Int2Num(2)))))

\* first revision (lines 80-111): an invalid quantity throws inside the try
\* and the catch returns 0
calculateFoodEmissions1(foodType, quantity, unit) ==
  LET quantityNum == ParseOrNumber(quantity)
  IN  IF isNaN(quantityNum) \/ IsNegative(quantityNum) THEN Local(Int2Num(0))
      ELSE Local(FoodResult(foodType, quantityNum, unit))

\* second revision (lines 354-374)
calculateFoodEmissions2(foodType, quantity, unit) ==
  LET q == Number(quantity)
  IN  IF isNaN(q) \/ IsNegative(q) THEN Local(Int2Num(0))
      ELSE Local(FoodResult(foodType, q, unit))

calculateFoodEmissions(v, foodType, quantity, unit) ==
  IF v = 1 THEN calculateFoodEmissions1(foodType, quantity, unit)
           ELSE calculateFoodEmissions2(foodType, quantity, unit)

(***************************************************************************)
(* Electricity                                                             *)
(***************************************************************************)
electricityFactorId == StrV("electricity")

\* the default parameter energyUnit = 'kwh', then the conversion
ToKWh(energyNum, energyUnit) ==
  IF energyUnit = "mwh" THEN Mul(energyNum, Int2Num(1000)) ELSE energyNum

\* 0.475 * (isNaN(energyNum) ? 0 : energyNum): the catch block converts the
\* argument again and does not apply the unit
ElectricityFallback(energyNum) ==
  Mul(Rat(475, 1000), IF isNaN(energyNum) THEN Int2Num(0) ELSE energyNum)

\* first revision (lines 116-155)
calculateElectricityEmissions1(energyConsumed, energyUnit, r) ==
  LET energyNum == ParseOrNumber(energyConsumed)
      kWh       == ToKWh(energyNum, energyUnit)
      resp      == axiosPost(r, electricityFactorId, kWh)
  IN  IF isNaN(energyNum) \/ IsNegative(energyNum)
      THEN Local(ElectricityFallback(energyNum))
      ELSE IF PostThrows(resp)
      THEN Outcome(ElectricityFallback(energyNum), 1, electricityFactorId, kWh)
      ELSE Outcome(Co2eOrZero(resp), 1, electricityFactorId, kWh)

\* second revision (lines 379-415)
calculateElectricityEmissions2(energyConsumed, energyUnit, r) ==
  LET num  == Number(energyConsumed)
      kWh  == ToKWh(num, energyUnit)
      resp == axiosPost(r, electricityFactorId, kWh)
  IN  IF isNaN(num) \/ IsNegative(num) THEN Local(Int2Num(0))
      ELSE IF PostThrows(resp)
      THEN Outcome(ElectricityFallback(Number(energyConsumed)), 1, electricityFactorId, kWh)
      ELSE Outcome(Co2eOrZero(resp), 1, electricityFactorId, kWh)

\* an electricity estimate that repeats its remote call once when it fails
calculateElectricityEmissionsRetrying(v, energyConsumed, energyUnit, r) ==
  LET o == IF v = 1 THEN calculateElectricityEmissions1(energyConsumed, energyUnit, r)
                    ELSE calculateElectricityEmissions2(energyConsumed, energyUnit, r)
  IN  IF o.calls = 1 /\ r # "ok" THEN [o EXCEPT !.calls = 2] ELSE o

calculateElectricityEmissions(v, energyConsumed, energyUnit, r) ==
  IF v = 1 THEN calculateElectricityEmissions1(energyConsumed, energyUnit, r)
           ELSE calculateElectricityEmissions2(energyConsumed, energyUnit, r)

(***************************************************************************)
(* Request bodies.  A quantity field is a JavaScript value, a string field *)
(* a string or UNDEF, a date an instant (hours since Epoch, UTC) or NoDate. *)
(***************************************************************************)
\* the date field of a body that holds none
NoDate == -1

Body(t, d, m, f, q, u, e, eu, c, o, dt) ==
  [activityType |-> t, distance |-> d, transportMode |-> m, foodType |-> f,
   quantity |-> q, unit |-> u, energyConsumed |-> e, energyUnit |-> eu,
   co2e |-> c, userId |-> o, date |-> dt]

EmptyBody ==
  Body(UNDEF, Undefined, UNDEF, UNDEF, Undefined, UNDEF, Undefined, UNDEF, Undefined, UNDEF, NoDate)

CommuteBody(t, d, m) == [EmptyBody EXCEPT !.activityType = t, !.distance = d,
                                          !.transportMode = m]

FoodBody(t, f, q, u) == [EmptyBody EXCEPT !.activityType = t, !.foodType = f,
                                          !.quantity = q, !.unit = u]

ElectricityBody(t, e, u) == [EmptyBody EXCEPT !.activityType = t,
                                              !.energyConsumed = e,
                                              !.energyUnit = u]

(***************************************************************************)
(* HTTP responses: res.status(s).json({...}).                              *)
(***************************************************************************)
Response(status, error, hasCo2e, co2e, calls) ==
  [status |-> status, error |-> error, hasCo2e |-> hasCo2e, co2e |-> co2e,
   unit |-> IF hasCo2e THEN "kg" ELSE UNDEF, calls |-> calls]

ErrorResponse(status, error) == Response(status, error, FALSE, NaN, 0)

\* res.json({ success: true, co2e, unit: "kg" })
CalculateOk(out) == Response(200, UNDEF, TRUE, out.ret, out.calls)

(***************************************************************************)
(* The calculate-only endpoint, POST /api/emissions/calculate.  The        *)
(* estimate operations never reject, so the first revision's catch (500)   *)
(* is never entered.                                                       *)
(***************************************************************************)
\* first revision (lines 160-194)
calculateEmissions1(body, r) ==
  LET activityType == body.activityType
  IN  IF ~StrTruthy(activityType)
      THEN ErrorResponse(400, "Activity type is required")
      ELSE CASE activityType = "commute" ->
                  IF IsNullish(body.distance)
                  THEN ErrorResponse(400, "Distance is required for commute")
                  ELSE CalculateOk(calculateCommuteEmissions1(
                                     body.distance, body.transportMode, r))
             [] activityType = "food" ->
                  IF IsNullish(body.quantity)
                  THEN ErrorResponse(400, "Quantity is required for food")
                  ELSE CalculateOk(calculateFoodEmissions1(
                                     body.foodType, body.quantity, body.unit))
             [] activityType = "electricity" ->
                  IF IsNullish(body.energyConsumed)
                  THEN ErrorResponse(400, "Energy consumed is required for electricity")
                  ELSE CalculateOk(calculateElectricityEmissions1(
                                     body.energyConsumed, body.energyUnit, r))
             [] OTHER -> ErrorResponse(400, "Invalid activity type")

\* second revision (lines 420-449)
calculateEmissions2(body, r) ==
  LET activityType == body.activityType
  IN  IF ~StrTruthy(activityType)
      THEN ErrorResponse(400, "Activity type is required")
      ELSE CASE activityType = "commute" ->
                  CalculateOk(calculateCommuteEmissions2(
                                body.distance, body.transportMode, r))
             [] activityType = "food" ->
                  CalculateOk(calculateFoodEmissions2(
                                body.foodType, body.quantity, body.unit))
             [] activityType = "electricity" ->
                  CalculateOk(calculateElectricityEmissions2(
                                body.energyConsumed, body.energyUnit, r))
             [] OTHER -> ErrorResponse(400, "Invalid activity type")

calculateEmissions(v, body, r) ==
  IF v = 1 THEN calculateEmissions1(body, r) ELSE calculateEmissions2(body, r)

(***************************************************************************)
(* Activity documents.  A stored document holds the fields of a body, the  *)
(* co2e written with it, and (history, not program state) whether that     *)
(* co2e was produced by the estimator for this write.                      *)
(***************************************************************************)
Kinds == {"commute", "food", "electricity"}

\* Mongoose's cast of a Number path: a number stays, a string that is a
\* number throughout is converted, the empty string and null become null;
\* anything else is a CastError
CanCastNumber(v) ==
  \/ v.t \in {"undefined", "null"}
  \/ v.t = "number" /\ ~isNaN(v.num)
  \/ v.t = "string" /\ (v.str = "" \/ ~isNaN(StringToNumber(v.str)))

CastNumber(v) ==
  CASE v.t = "number"             -> v
    [] v.t = "string" /\ v.str # "" -> NumV(StringToNumber(v.str))
    [] OTHER                      -> Null

\* the Activity schema (models/Activity.js): the kind is one of the three,
\* the kind-specific quantity fields are non-negative numbers, co2e is a
\* number
SchemaAccepts(data) ==
  /\ data.activityType = UNDEF \/ data.activityType \in Kinds
  /\ \A q \in {data.distance, data.quantity, data.energyConsumed} :
       CanCastNumber(q) /\ ~IsNegative(Number(CastNumber(q)))
  /\ CanCastNumber(data.co2e)

\* the document written for `data`, over the stored document `old`: a field
\* that `data` does not hold keeps its stored value
Patch(old, data, recalculated) ==
  LET num(f, g) == IF f.t = "undefined" THEN g ELSE CastNumber(f)
      str(f, g) == IF f = UNDEF THEN g ELSE f
  IN  [activityType   |-> str(data.activityType, old.activityType),
       distance       |-> num(data.distance, old.distance),
       transportMode  |-> str(data.transportMode, old.transportMode),
       foodType       |-> str(data.foodType, old.foodType),
       quantity       |-> num(data.quantity, old.quantity),
       unit           |-> str(data.unit, old.unit),
       energyConsumed |-> num(data.energyConsumed, old.energyConsumed),
       energyUnit     |-> str(data.energyUnit, old.energyUnit),
       co2e           |-> num(data.co2e, old.co2e),
       userId         |-> str(data.userId, old.userId),
       date           |-> IF data.date = NoDate THEN old.date ELSE data.date,
       derived        |-> IF data.co2e.t = "undefined" THEN old.derived
                          ELSE recalculated]

\* new Activity({...}): nothing stored before
NewDocument == [EmptyBody EXCEPT !.co2e = Undefined] @@ [derived |-> TRUE]

\* createActivity's owner and date: userId = 'default-user' when the body
\* holds none, date ? new Date(date) : new Date()
DefaultUser == "default-user"

Stamped(data, t) ==
  [data EXCEPT !.userId = IF data.userId = UNDEF THEN DefaultUser ELSE data.userId,
               !.date   = IF data.date = NoDate THEN t ELSE data.date]

(***************************************************************************)
(* A handler's work up to its write: either it has answered (ok = FALSE,   *)
(* res the answer), or it holds the data to write and the outcome of the   *)
(* estimate it awaited.                                                    *)
(***************************************************************************)
Rejected(status, error) ==
  [ok |-> FALSE, res |-> ErrorResponse(status, error), data |-> EmptyBody,
   out |-> Local(Int2Num(0)), recalculated |-> FALSE]

Prepared(data, out, recalculated) ==
  [ok |-> TRUE, res |-> ErrorResponse(0, UNDEF),
   data |-> IF recalculated THEN [data EXCEPT !.co2e = NumV(out.ret)] ELSE data,
   out |-> out, recalculated |-> recalculated]

\* createActivity (activityController.js lines 8-103), up to activity.save()
createActivity(v, body, r) ==
  LET activityType == body.activityType
  IN  IF ~StrTruthy(activityType) \/ activityType \notin Kinds
      THEN Rejected(400, "Invalid activity type")
      ELSE
      CASE activityType = "commute" ->
             LET distanceNum == ParseOrNumber(body.distance)
                 mode        == StrOr(body.transportMode, "car")
             IN  IF IsNullish(body.distance)
                 THEN Rejected(400, "Distance is required for commute")
                 ELSE IF isNaN(distanceNum) \/ IsNegative(distanceNum)
                 THEN Rejected(400, "Distance must be a non-negative number")
                 ELSE Prepared([body EXCEPT !.distance = NumV(distanceNum),
                                            !.transportMode = mode],
                               calculateCommuteEmissions(v, NumV(distanceNum), mode, r),
                               TRUE)
        [] activityType = "food" ->
             LET quantityNum == ParseOrNumber(body.quantity)
                 fType       == StrOr(body.foodType, "vegetables")
                 u           == StrOr(body.unit, "kg")
             IN  IF IsNullish(body.quantity)
                 THEN Rejected(400, "Quantity is required for food activity")
                 ELSE IF isNaN(quantityNum) \/ IsNegative(quantityNum)
                 THEN Rejected(400, "Quantity must be a non-negative number")
                 ELSE Prepared([body EXCEPT !.quantity = NumV(quantityNum),
                                            !.foodType = fType, !.unit = u],
                               calculateFoodEmissions(v, fType, NumV(quantityNum), u),
                               TRUE)
        [] OTHER ->
             LET energyNum == ParseOrNumber(body.energyConsumed)
                 eUnit     == StrOr(body.energyUnit, "kwh")
             IN  IF IsNullish(body.energyConsumed)
                 THEN Rejected(400, "Energy consumed is required for electricity")
                 ELSE IF isNaN(energyNum) \/ IsNegative(energyNum)
                 THEN Rejected(400, "Energy consumed must be a non-negative number")
                 ELSE Prepared([body EXCEPT !.energyConsumed = NumV(energyNum),
                                            !.energyUnit = eUnit],
                               calculateElectricityEmissions(v, NumV(energyNum), eUnit, r),
                               TRUE)

\* updateActivity (lines 227-306), from the document findById returned up
\* to findByIdAndUpdate
updateActivity(v, activity, body, r) ==
  LET updateData == body
      willChangeType ==
        StrTruthy(updateData.activityType)
          /\ updateData.activityType # activity.activityType
      willChangeRelevantField ==
        \/ ~IsNullish(updateData.distance)
        \/ StrTruthy(updateData.transportMode)
        \/ StrTruthy(updateData.foodType)
        \/ ~IsNullish(updateData.quantity)
        \/ StrTruthy(updateData.unit)
        \/ ~IsNullish(updateData.energyConsumed)
        \/ StrTruthy(updateData.energyUnit)
      type == StrOr(updateData.activityType, activity.activityType)
  IN  IF StrTruthy(updateData.activityType) /\ updateData.activityType \notin Kinds
      THEN Rejected(400, "Invalid activity type")
      ELSE IF ~(willChangeType \/ willChangeRelevantField)
      THEN Prepared(updateData, Local(Int2Num(0)), FALSE)
      ELSE
      CASE type = "commute" ->
             LET newDistance == IF ~IsNullish(updateData.distance)
                                THEN Number(updateData.distance)
                                ELSE Number(activity.distance)
                 mode == StrOr(updateData.transportMode,
                               StrOr(activity.transportMode, "car"))
             IN  IF isNaN(newDistance) \/ IsNegative(newDistance)
                 THEN Rejected(400, "Distance must be a non-negative number")
                 ELSE Prepared([updateData EXCEPT !.distance = NumV(newDistance),
                                                  !.transportMode = mode],
                               calculateCommuteEmissions(v, NumV(newDistance), mode, r),
                               TRUE)
        [] type = "food" ->
             LET newQuantity == IF ~IsNullish(updateData.quantity)
                                THEN Number(updateData.quantity)
                                ELSE Number(activity.quantity)
                 fType == StrOr(updateData.foodType,
                                StrOr(activity.foodType, "vegetables"))
                 u     == StrOr(updateData.unit, StrOr(activity.unit, "kg"))
             IN  IF isNaN(newQuantity) \/ IsNegative(newQuantity)
                 THEN Rejected(400, "Quantity must be a non-negative number")
                 ELSE Prepared([updateData EXCEPT !.quantity = NumV(newQuantity),
                                                  !.foodType = fType, !.unit = u],
                               calculateFoodEmissions(v, fType, NumV(newQuantity), u),
                               TRUE)
        [] type = "electricity" ->
             LET newEnergy == IF ~IsNullish(updateData.energyConsumed)
                              THEN Number(updateData.energyConsumed)
                              ELSE Number(activity.energyConsumed)
                 eUnit == StrOr(updateData.energyUnit,
                                StrOr(activity.energyUnit, "kwh"))
             IN  IF isNaN(newEnergy) \/ IsNegative(newEnergy)
                 THEN Rejected(400, "Energy consumed must be a non-negative number")
                 ELSE Prepared([updateData EXCEPT !.energyConsumed = NumV(newEnergy),
                                                  !.energyUnit = eUnit],
                               calculateElectricityEmissions(v, NumV(newEnergy), eUnit, r),
                               TRUE)
        [] OTHER -> Prepared(updateData, Local(Int2Num(0)), TRUE)

(***************************************************************************)
(* Dates.  An instant is a number of hours since Epoch, a Sunday 00:00 UTC; *)
(* the server's zone is z hours ahead of UTC (no daylight saving).          *)
(***************************************************************************)
HoursPerDay == 24

DaysPerWeek == 7

\* d.getDay(): the day of the week in the server's zone, 0 = Sunday
getDay(t, z) == ((t + z) \div HoursPerDay) % DaysPerWeek

\* d.setDate(d.getDate() - n): n days earlier at the same local time
setDateBack(t, n) == t - n * HoursPerDay

\* d.toISOString().split("T")[0]: the calendar date in UTC, as the number
\* of the day since Epoch
toISODate(t) == t \div HoursPerDay

\* the key getEmissionsByPeriod gives an activity dated t
GroupKey(t, period, z) ==
  IF period = "week" THEN toISODate(setDateBack(t, getDay(t, z)))
                     ELSE toISODate(t)

\* sum of the co2e of the documents `ids`, from 0
RECURSIVE reduce(_, _)
reduce(docs, ids) ==
  IF ids = {} THEN Int2Num(0)
  ELSE LET id == CHOOSE i \in ids : TRUE
       IN  Add(reduce(docs, ids \ {id}), Number(docs[id].co2e))

\* Activity.find({ userId, date: { $gte: start } }), start = now - days
Found(docs, userId, days, t) ==
  {id \in DOMAIN docs :
     docs[id].userId = userId /\ docs[id].date >= setDateBack(t, days)}

\* getEmissionsByPeriod: Object.values(grouped), as key -> co2e
getEmissionsByPeriod(docs, userId, period, days, t, z) ==
  LET list == Found(docs, userId, days, t)
      key(id) == GroupKey(docs[id].date, period, z)
  IN  [k \in {key(id) : id \in list} |->
         reduce(docs, {id \in list : key(id) = k})]

\* getTotalEmissions without a date range: totalCo2e and count
getTotalEmissions(docs, userId) ==
  LET activities == {id \in DOMAIN docs : docs[id].userId = userId}
  IN  [totalCo2e |-> reduce(docs, activities), count |-> Cardinality(activities)]

(***************************************************************************)
(* State.                                                                  *)
(*   version   the revision of emissionController.js that is deployed      *)
(*   now       the server's clock: hours since Epoch, in UTC               *)
(*   tz        the server's time zone: hours ahead of UTC                  *)
(*   args      (estimator runs) the operation about to be invoked, its     *)
(*             arguments as a body, and what the remote service will do    *)
(*   last      the outcome of the direct call of an estimate operation     *)
(*   resp      the HTTP response sent last, with the request it answers    *)
(*   db        the activities collection: identifier -> document           *)
(*   nextId    the identifier the next created document gets               *)
(*   inflight  the update requests between their read and their write      *)
(*   nreq      the number of requests received so far                      *)
(***************************************************************************)
VARIABLES version, now, tz, args, last, resp, db, nextId, inflight, nreq

vars == <<version, now, tz, args, last, resp, db, nextId, inflight, nreq>>

clock == <<now, tz>>

store == <<db, nextId, inflight, nreq>>

Versions == {1, 2}

(***************************************************************************)
(* Inputs.                                                                 *)
(***************************************************************************)
Amounts == (0 .. MaxAmount) \cup {50, 100, 1000}

\* what a caller may pass as distance, quantity or energyConsumed
QuantityValues ==
  {NumV(Int2Num(i)) : i \in Amounts}
    \cup {NumV(Int2Num(-5)), StrV("5"), StrV("-5"), StrV("5abc"), StrV("abc"),
          StrV(""), Null, Undefined}

TransportModes ==
  {"car", "bus", "train", "plane", "motorcycle", "bicycle", "walking",
   "scooter", "constructor", "", UNDEF}

FoodTypes ==
  {"beef", "pork", "chicken", "fish", "dairy", "vegetables", "fruits", "grains",
   "tofu", "constructor", UNDEF}

Units == {"kg", "g", "lb", "oz", UNDEF}

EnergyUnits == {"kwh", "mwh", UNDEF}

CommuteBodies(types) ==
  {CommuteBody(t, d, m) : t \in types, d \in QuantityValues, m \in TransportModes}

FoodBodies(types) ==
  {FoodBody(t, f, q, u) : t \in types, f \in FoodTypes, q \in QuantityValues,
                          u \in Units}

ElectricityBodies(types) ==
  {ElectricityBody(t, e, u) : t \in types, e \in QuantityValues, u \in EnergyUnits}

\* bodies sent to the calculate-only endpoint: each kind with its own
\* fields, and bodies whose kind is absent, empty or unknown
CalculateBodies ==
  CommuteBodies({"commute"}) \cup FoodBodies({"food"})
    \cup ElectricityBodies({"electricity"})
    \cup {CommuteBody(t, NumV(Int2Num(1)), "car") : t \in {UNDEF, "", "flight"}}

Invocation(op, body, r) == [op |-> op, body |-> body, remote |-> r]

Invocations ==
  {Invocation("commute", b, r) : b \in CommuteBodies({UNDEF}), r \in RemoteOutcomes}
    \cup {Invocation("food", b, "ok") : b \in FoodBodies({UNDEF})}
    \cup {Invocation("electricity", b, r) :
            b \in ElectricityBodies({UNDEF}), r \in RemoteOutcomes}
    \cup {Invocation("calculate", b, r) : b \in CalculateBodies, r \in RemoteOutcomes}

NoInvocation == Invocation("none", EmptyBody, "ok")

NoCall == [op |-> "none", out |-> Local(Int2Num(0))]

\* a response, the request it answers (operation, body, identifier, what the
\* remote service did) and whether the request wrote to the collection
Answer(op, res, body, id, r, wrote) ==
  [op |-> op, res |-> res, body |-> body, id |-> id, remote |-> r,
   wrote |-> wrote]

NoResponse == Answer("none", ErrorResponse(0, UNDEF), EmptyBody, 0, "none", FALSE)

NoDocuments == [i \in {} |-> NewDocument]

Idle == [op |-> "idle"]

(***************************************************************************)
(* Direct calls of the three exported estimate operations, and one request *)
(* to the calculate-only endpoint.                                         *)
(***************************************************************************)
CallCommute ==
  /\ args.op = "commute" /\ last.op = "none"
  /\ last' = [op  |-> "commute",
              out |-> calculateCommuteEmissions(
                        version, args.body.distance, args.body.transportMode,
                        args.remote)]
  /\ UNCHANGED <<version, clock, args, resp, store>>

CallFood ==
  /\ args.op = "food" /\ last.op = "none"
  /\ last' = [op  |-> "food",
              out |-> calculateFoodEmissions(
                        version, args.body.foodType, args.body.quantity,
                        args.body.unit)]
  /\ UNCHANGED <<version, clock, args, resp, store>>

CallElectricity ==
  /\ args.op = "electricity" /\ last.op = "none"
  /\ last' = [op  |-> "electricity",
              out |-> calculateElectricityEmissions(
                        version, args.body.energyConsumed, args.body.energyUnit,
                        args.remote)]
  /\ UNCHANGED <<version, clock, args, resp, store>>

CallCalculate ==
  /\ args.op = "calculate" /\ resp.op = "none"
  /\ resp' = Answer("calculate",
                    calculateEmissions(version, args.body, args.remote),
                    args.body, 0, args.remote, FALSE)
  /\ UNCHANGED <<version, clock, args, last, store>>

InitEst ==
  /\ version \in Versions
  /\ now = StartTime
  /\ tz = 0
  /\ args \in Invocations
  /\ last = NoCall
  /\ resp = NoResponse
  /\ db = NoDocuments
  /\ nextId = 1
  /\ inflight = [s \in 1 .. MaxInflight |-> Idle]
  /\ nreq = 0

NextEst ==
  \/ CallCommute
  \/ CallFood
  \/ CallElectricity
  \/ CallCalculate

SpecEst == InitEst /\ [][NextEst]_vars

(***************************************************************************)
(* The HTTP handlers over the activities collection.                       *)
(***************************************************************************)
\* what the remote service does in a request that calls it
CrudRemotes == {"ok", "neterr"}

\* what the remote service does in a create request that calls it
CreateRemotes == CrudRemotes \cup {"nofield"}

One == NumV(Int2Num(1))

CreateBodies ==
  {CommuteBody("commute", d, "train") :
     d \in {NumV(Int2Num(50)), NumV(Int2Num(-5)), StrV("5abc"), Undefined}}
    \cup {CommuteBody(t, One, UNDEF) : t \in {"commute", "flight"}}
    \cup {FoodBody("food", "beef", One, "g"),
          ElectricityBody("electricity", One, "mwh"),
          [CommuteBody("commute", One, "car") EXCEPT !.co2e = NumV(Int2Num(999))]}

UpdateBodies ==
  {CommuteBody(UNDEF, d, UNDEF) : d \in {One, NumV(Int2Num(-5))}}
    \cup {CommuteBody(t, Undefined, m) :
            t \in {UNDEF, "commute", "flight", ""}, m \in {UNDEF}}
    \cup {CommuteBody(UNDEF, Undefined, "bus"),
          FoodBody("food", UNDEF, One, UNDEF),
          FoodBody("food", UNDEF, Undefined, UNDEF),
          ElectricityBody(UNDEF, NumV(Int2Num(MaxAmount)), UNDEF),
          CommuteBody(UNDEF, Null, UNDEF),
          [EmptyBody EXCEPT !.co2e = NumV(Int2Num(999))]}

\* the remote outcome of a request, kept only when the request called
Called(out, r) == IF out.calls > 0 THEN r ELSE "none"

Ids == 1 .. MaxId

FreeSlots == {s \in 1 .. MaxInflight : inflight[s] = Idle}

Receive == nreq < MaxRequests /\ nreq' = nreq + 1

\* a calculate-only endpoint that also stored what it computed
CalculateAndSave(body, r) ==
  /\ Receive
  /\ nextId <= MaxId
  /\ resp' = Answer("calculate", calculateEmissions(version, body, r), body, 0,
                    Called(calculateEmissions(version, body, r), r), FALSE)
  /\ db' = [i \in DOMAIN db \cup {nextId} |->
             IF i = nextId THEN Patch(NewDocument, Stamped(body, now), TRUE)
                           ELSE db[i]]
  /\ nextId' = nextId + 1
  /\ UNCHANGED <<version, clock, args, last, inflight>>

\* POST /api/emissions/calculate
Calculate(body, r) ==
  /\ Receive
  /\ resp' = Answer("calculate", calculateEmissions(version, body, r), body, 0,
                    Called(calculateEmissions(version, body, r), r), FALSE)
  /\ UNCHANGED <<version, clock, args, last, db, nextId, inflight>>

\* POST /api/activities: the estimate is awaited before anything is
\* stored, and the new document conflicts with no other request, so the
\* handler is one step.  activity.save() rejects what the schema rejects,
\* and the catch answers 500.
Create(body, r) ==
  LET p == createActivity(version, body, r)
      saved == p.ok /\ SchemaAccepts(p.data)
  IN  /\ Receive
      /\ nextId <= MaxId
      /\ db' = IF saved
               THEN [i \in DOMAIN db \cup {nextId} |->
                       IF i = nextId
                       THEN Patch(NewDocument, Stamped(p.data, now), TRUE)
                                     ELSE db[i]]
               ELSE db
      /\ nextId' = IF saved THEN nextId + 1 ELSE nextId
      /\ resp' = Answer("create",
                        CASE ~p.ok -> p.res
                          [] saved -> Response(201, UNDEF, TRUE, p.out.ret, p.out.calls)
                          [] OTHER -> Response(500, "Failed to create activity",
                                               FALSE, NaN, p.out.calls),
                        body, IF saved THEN nextId ELSE 0, Called(p.out, r), saved)
      /\ UNCHANGED <<version, clock, args, last, inflight>>

\* PUT /api/activities/:id, from findById to the call of findByIdAndUpdate:
\* 404, 400, or the patch is ready with the estimate awaited
UpdateRead(id, body, r) ==
  /\ Receive
  /\ FreeSlots # {}
  /\ IF id \notin DOMAIN db
     THEN /\ resp' = Answer("update", ErrorResponse(404, "Activity not found"),
                            body, id, r, FALSE)
          /\ UNCHANGED inflight
     ELSE LET p == updateActivity(version, db[id], body, r)
              s == CHOOSE f \in FreeSlots : \A g \in FreeSlots : f <= g
          IN  IF ~p.ok
              THEN /\ resp' = Answer("update", p.res, body, id, "none", FALSE)
                   /\ UNCHANGED inflight
              ELSE /\ inflight' = [inflight EXCEPT ![s] =
                                     [op |-> "update", id |-> id, body |-> body,
                                      remote |-> Called(p.out, r), data |-> p.data,
                                      activity |-> db[id],
                                      calls |-> p.out.calls,
                                      recalculated |-> p.recalculated]]
                   /\ UNCHANGED resp
  /\ UNCHANGED <<version, clock, args, last, db, nextId>>

\* the write of an update with {upsert: true}: a record deleted meanwhile
\* is created again from the patch
UpdateWriteUpsert(s) ==
  LET q == inflight[s]
      old == IF q.id \in DOMAIN db THEN db[q.id] ELSE NewDocument
      written == SchemaAccepts(q.data)
      updatedActivity == Patch(old, q.data, q.recalculated)
  IN  /\ q # Idle
      /\ inflight' = [inflight EXCEPT ![s] = Idle]
      /\ db' = IF written
               THEN [i \in DOMAIN db \cup {q.id} |->
                       IF i = q.id THEN updatedActivity ELSE db[i]]
               ELSE db
      /\ resp' = Answer("update",
                        IF written
                        THEN Response(200, UNDEF, TRUE,
                                      Number(updatedActivity.co2e), q.calls)
                        ELSE Response(500, "Failed to update activity", FALSE,
                                      NaN, q.calls),
                        q.body, q.id, q.remote, written)
                   @@ [activity |-> q.activity, replaced |-> old]
      /\ UNCHANGED <<version, clock, args, last, nextId, nreq>>

\* findByIdAndUpdate(id, updateData, {new: true, runValidators: true}) and
\* the response: a document deleted meanwhile gives null, whose _id cannot
\* be read, and a patch the schema rejects throws: the catch answers 500.
\* The answer is recorded with the document the handler read (activity) and
\* the document its write replaced (replaced).
UpdateWrite(s) ==
  LET q == inflight[s]
      written == q.id \in DOMAIN db /\ SchemaAccepts(q.data)
      updatedActivity == Patch(db[q.id], q.data, q.recalculated)
  IN  /\ q # Idle
      /\ inflight' = [inflight EXCEPT ![s] = Idle]
      /\ db' = IF written THEN [db EXCEPT ![q.id] = updatedActivity] ELSE db
      /\ resp' = Answer("update",
                        IF written
                        THEN Response(200, UNDEF, TRUE,
                                      Number(updatedActivity.co2e), q.calls)
                        ELSE Response(500, "Failed to update activity", FALSE,
                                      NaN, q.calls),
                        q.body, q.id, q.remote, written)
                   @@ [activity |-> q.activity,
                       replaced |-> IF q.id \in DOMAIN db THEN db[q.id]
                                    ELSE NewDocument]
      /\ UNCHANGED <<version, clock, args, last, nextId, nreq>>

\* DELETE /api/activities/:id
Delete(id) ==
  /\ Receive
  /\ db' = [i \in DOMAIN db \ {id} |-> db[i]]
  /\ resp' = Answer("delete",
                    IF id \in DOMAIN db THEN Response(200, UNDEF, FALSE, NaN, 0)
                    ELSE ErrorResponse(404, "Activity not found"),
                    EmptyBody, id, "none", id \in DOMAIN db)
  /\ UNCHANGED <<version, clock, args, last, nextId, inflight>>

\* GET /api/activities/:id
GetById(id) ==
  /\ Receive
  /\ resp' = Answer("get",
                    IF id \in DOMAIN db
                    THEN Response(200, UNDEF, TRUE, Number(db[id].co2e), 0)
                    ELSE ErrorResponse(404, "Activity not found"),
                    EmptyBody, id, "none", FALSE)
  /\ UNCHANGED <<version, clock, args, last, db, nextId, inflight>>

Init ==
  /\ version \in Versions
  /\ now = StartTime
  /\ tz = 0
  /\ args = NoInvocation
  /\ last = NoCall
  /\ resp = NoResponse
  /\ db = NoDocuments
  /\ nextId = 1
  /\ inflight = [s \in 1 .. MaxInflight |-> Idle]
  /\ nreq = 0

Next ==
  \/ \E b \in CreateBodies, r \in CrudRemotes : Calculate(b, r)
  \/ \E b \in CreateBodies, r \in CreateRemotes : Create(b, r)
  \/ \E id \in Ids, b \in UpdateBodies, r \in CrudRemotes : UpdateRead(id, b, r)
  \/ \E s \in 1 .. MaxInflight : UpdateWrite(s)
  \/ \E id \in Ids : Delete(id)
  \/ \E id \in Ids : GetById(id)

Spec == Init /\ [][Next]_vars

(***************************************************************************)
(* The reports over the stored activities, on a server in any zone.        *)
(***************************************************************************)
TimeZones == {0, 5, -5}

\* Thursday and Saturday of one week, Sunday (early, late) and Tuesday of
\* the next, and a Sunday older than a week
Dates == {270, 330, 338, 358, 400, 170}

Users == {UNDEF, "alice"}

DatedBodies ==
  {[FoodBody("food", "beef", NumV(Int2Num(q)), "kg") EXCEPT !.userId = o, !.date = dt] :
     q \in 1 .. MaxAmount, o \in Users, dt \in Dates \cup {NoDate}}

Query(userId, period, days) ==
  [EmptyBody EXCEPT !.userId = userId] @@ [period |-> period, days |-> days]

\* GET /api/emissions/period?userId=&period=&days=
GetEmissionsByPeriod(userId, period, days) ==
  /\ Receive
  /\ resp' = Answer("period",
                    Response(200, UNDEF, FALSE, NaN, 0)
                      @@ [data |-> getEmissionsByPeriod(db, userId, period, days,
                                                        now, tz)],
                    Query(userId, period, days), 0, "none", FALSE)
  /\ UNCHANGED <<version, clock, args, last, db, nextId, inflight>>

\* GET /api/emissions/total?userId=
GetTotalEmissions(userId) ==
  /\ Receive
  /\ resp' = Answer("total",
                    Response(200, UNDEF, FALSE, NaN, 0)
                      @@ [data |-> getTotalEmissions(db, userId)],
                    Query(userId, UNDEF, 0), 0, "none", FALSE)
  /\ UNCHANGED <<version, clock, args, last, db, nextId, inflight>>

InitPeriod ==
  /\ version \in Versions
  /\ now = StartTime
  /\ tz \in TimeZones
  /\ args = NoInvocation
  /\ last = NoCall
  /\ resp = NoResponse
  /\ db = NoDocuments
  /\ nextId = 1
  /\ inflight = [s \in 1 .. MaxInflight |-> Idle]
  /\ nreq = 0

NextPeriod ==
  \/ \E b \in DatedBodies : Create(b, "ok")
  \/ \E o \in {DefaultUser, "alice"}, p \in {"day", "week"}, n \in {7, 30} :
        GetEmissionsByPeriod(o, p, n)
  \/ \E o \in {DefaultUser, "alice"} : GetTotalEmissions(o)

SpecPeriod == InitPeriod /\ [][NextPeriod]_vars

(***************************************************************************)
(* The estimator as the specification describes it.                        *)
(***************************************************************************)
\* a number >= 0
IsAmount(v) == v.t = "number" /\ v.num.k = "fin" /\ v.num.n >= 0

\* a number, or a string that is a number throughout
IsNumeric(v) == v.t = "number" \/ (v.t = "string" /\ v.str \in {"5", "-5"})

\* non-numeric or negative
IsInvalidQuantity(v) == ~IsNumeric(v) \/ IsNegative(Number(v))

ZeroModes == {"bicycle", "walking"}

\* per-km fallback rate: the table, and the car rate for an unmapped mode
SpecRate(m) ==
  CASE m = "car"        -> Rat(21, 100)
    [] m = "bus"        -> Rat(89, 1000)
    [] m = "train"      -> Rat(41, 1000)
    [] m = "plane"      -> Rat(255, 1000)
    [] m = "motorcycle" -> Rat(113, 1000)
    [] m \in ZeroModes  -> Int2Num(0)
    [] OTHER            -> Rat(21, 100)

\* per-kg factor: the table, and 2.0 for an unknown food type
SpecFactor(f) ==
  CASE f = "beef"       -> Int2Num(27)
    [] f = "pork"       -> Rat(121, 10)
    [] f = "chicken"    -> Rat(69, 10)
    [] f = "fish"       -> Rat(51, 10)
    [] f = "dairy"      -> Rat(32, 10)
    [] f = "vegetables" -> Int2Num(2)
    [] f = "fruits"     -> Rat(11, 10)
    [] f = "grains"     -> Rat(27, 10)
    [] OTHER            -> Int2Num(2)

SpecKg(q, u) ==
  CASE u = "g"  -> Mul(q, Rat(1, 1000))
    [] u = "lb" -> Mul(q, Rat(453592, 1000000))
    [] OTHER    -> q

SpecKWh(e, u) == IF u = "mwh" THEN Mul(e, Int2Num(1000)) ELSE e

SpecElectricityFallback(e, u) == Mul(SpecKWh(e, u), Rat(475, 1000))

\* the ways a remote call fails: network error, non-success response,
\* malformed payload (absent, or without its co2e field)
RemoteFailures == {"neterr", "non2xx", "nobody", "nofield"}

\* the failures in which axios.post or the read of the payload throws
RemoteThrows == {"neterr", "non2xx", "nobody"}

Thousand(v) == NumV(Mul(v.num, Int2Num(1000)))

(***************************************************************************)
(* Claims                                                                  *)
(***************************************************************************)

\* C1: for every distance d >= 0, the commute estimate with mode bicycle or
\* walking returns 0 and issues no remote call, whatever the remote service
\* would have done.
C1_ZeroModesReturnZeroWithoutCall ==
  (/\ last.op = "commute"
   /\ args.body.transportMode \in ZeroModes
   /\ IsAmount(args.body.distance))
  => (last.out.ret = Int2Num(0) /\ last.out.calls = 0)

\* C2: a failure of the remote call is never surfaced: for every valid input
\* the commute and electricity estimates return the static fallback value
\* (distance x rate, energy in kWh x 0.475), and the calculate-only endpoint
\* answers as it does when the remote call succeeds, never with an error
\* status.
C2_RemoteFailureAbsorbed ==
  /\ (/\ last.op = "commute"
      /\ args.remote \in RemoteFailures
      /\ IsAmount(args.body.distance))
     => last.out.ret = Mul(SpecRate(args.body.transportMode),
                           args.body.distance.num)
  /\ (/\ last.op = "electricity"
      /\ args.remote \in RemoteFailures
      /\ IsAmount(args.body.energyConsumed))
     => last.out.ret = SpecElectricityFallback(args.body.energyConsumed.num,
                                               args.body.energyUnit)
  /\ (/\ resp.op = "calculate"
      /\ args.remote \in RemoteFailures)
     => resp.res.status = calculateEmissions(version, args.body, "ok").status

\* C3: a success response without a co2e field is treated as a failure: the
\* commute and electricity estimates return what they return for a
\* transport error, the local fallback value.
C3_MissingCo2eIsFailure ==
  /\ (/\ last.op = "commute"
      /\ args.remote = "nofield"
      /\ IsAmount(args.body.distance))
     => last.out.ret =
          calculateCommuteEmissions(version, args.body.distance,
                                    args.body.transportMode, "neterr").ret
  /\ (/\ last.op = "electricity"
      /\ args.remote = "nofield"
      /\ IsAmount(args.body.energyConsumed))
     => last.out.ret =
          calculateElectricityEmissions(version, args.body.energyConsumed,
                                        args.body.energyUnit, "neterr").ret

\* C4: for every energy amount e >= 0, the electricity estimate of e mwh
\* equals the electricity estimate of 1000*e kwh under the same remote
\* behaviour, on the remote path and on the fallback path.
C4_MwhEqualsThousandKwh ==
  (/\ last.op = "electricity"
   /\ args.body.energyUnit = "mwh"
   /\ IsAmount(args.body.energyConsumed))
  => last.out.ret =
       calculateElectricityEmissions(version, Thousand(args.body.energyConsumed),
                                     "kwh", args.remote).ret

\* C5: for every input of the commute, food and electricity estimates, on
\* the remote and on the fallback path, the returned co2e is never NaN and
\* never negative, and a negative or non-numeric distance, quantity or
\* energy gives zero.
C5_NeverNaNNeverNegative ==
  LET q == CASE last.op = "commute" -> args.body.distance
             [] last.op = "food"    -> args.body.quantity
             [] OTHER               -> args.body.energyConsumed
  IN  last.op # "none"
      => /\ ~isNaN(last.out.ret)
         /\ ~IsNegative(last.out.ret)
         /\ IsInvalidQuantity(q) => last.out.ret = Int2Num(0)

\* C6: in every reachable state the co2e stored on each activity was
\* produced by the estimator for that activity; a co2e supplied in a create
\* or update body is never written to the stored record.
C6_StoredCo2eIsDerived ==
  \A id \in DOMAIN db : db[id].derived

\* C7: the calculate-only endpoint answers 400 with an error message and no
\* co2e whenever the field its kind requires is missing, non-numeric or
\* negative, and {success, co2e, unit: 'kg'} only for valid input.
C7_CalculateRejectsInvalidInput ==
  LET b == args.body
      q == CASE b.activityType = "commute" -> b.distance
             [] b.activityType = "food"    -> b.quantity
             [] OTHER                      -> b.energyConsumed
  IN  (resp.op = "calculate"
       /\ b.activityType \in {"commute", "food", "electricity"})
      => IF IsInvalidQuantity(q)
         THEN /\ resp.res.status = 400
              /\ resp.res.error # UNDEF
              /\ ~resp.res.hasCo2e
         ELSE /\ resp.res.status = 200
              /\ resp.res.hasCo2e
              /\ resp.res.unit = "kg"

\* a create or update body that fails input validation: the kind missing
\* (create) or not one of the three, the quantity its kind requires missing
\* (create), or a distance, quantity or energy that is non-numeric or
\* negative
PresentQuantities(b) ==
  {q \in {b.distance, b.quantity, b.energyConsumed} : ~IsNullish(q)}

RequiredQuantity(b) ==
  CASE b.activityType = "commute" -> b.distance
    [] b.activityType = "food"    -> b.quantity
    [] OTHER                      -> b.energyConsumed

FailsValidation(op, b) ==
  \/ b.activityType # UNDEF /\ b.activityType \notin Kinds
  \/ op = "create" /\ b.activityType = UNDEF
  \/ op = "create" /\ b.activityType \in Kinds /\ IsNullish(RequiredQuantity(b))
  \/ \E q \in PresentQuantities(b) : IsInvalidQuantity(q)

\* C8: a create or update request that fails input validation is answered
\* 400 and blocked entirely: no record is created or modified and no remote
\* call is issued.  (An update of an identifier that is not stored is
\* answered 404 before its body is looked at.)
C8_InvalidRequestBlocked ==
  (/\ resp.op \in {"create", "update"}
   /\ resp.res.status # 404
   /\ FailsValidation(resp.op, resp.body))
  => (resp.res.status = 400 /\ ~resp.wrote /\ resp.res.calls = 0)

\* C9: when the remote call fails, the commute estimate of a distance
\* d >= 0 is d x rate(m) for m among car, bus, train, plane, motorcycle
\* (0.21, 0.089, 0.041, 0.255, 0.113) and d x 0.21 for any mode outside the
\* seven recognized modes.
C9_FallbackRates ==
  (/\ last.op = "commute"
   /\ args.remote \in RemoteThrows
   /\ IsAmount(args.body.distance)
   /\ args.body.transportMode \notin ZeroModes)
  => last.out.ret = Mul(SpecRate(args.body.transportMode),
                        args.body.distance.num)

\* C10: for every food type f and quantity q >= 0 the food estimate is
\* (q in kilograms) x factor(f), grams divided by 1000, pounds multiplied by
\* 0.453592, any other unit unchanged, factor 2.0 for an unknown food type;
\* the estimate of 1000*q grams equals that of q kilograms; a non-numeric or
\* negative quantity yields 0.
C10_FoodEstimate ==
  LET b == args.body
      u == IF b.unit = UNDEF THEN "kg" ELSE b.unit
  IN  last.op = "food"
      => /\ IsAmount(b.quantity)
            => /\ last.out.ret = Mul(SpecKg(b.quantity.num, u),
                                     SpecFactor(b.foodType))
               /\ u = "kg"
                  => last.out.ret =
                       calculateFoodEmissions(version, b.foodType,
                                              Thousand(b.quantity), "g").ret
         /\ IsInvalidQuantity(b.quantity) => last.out.ret = Int2Num(0)

\* the week of an instant, read in a zone z hours ahead of UTC
WeekOf(t, z) == (t + z) \div (HoursPerDay * DaysPerWeek)

\* the date of the Sunday that starts week w
SundayOf(w) == w * DaysPerWeek

\* C11: when two stored activities of the same owner are dated within the
\* same Sunday-to-Saturday span (read in UTC and in the server's zone
\* alike), grouping by week puts them in one group whose key is the date of
\* that week's Sunday and whose co2e is the sum of the co2e of the owner's
\* listed activities of that week, whatever their time of day.
C11_WeekGroups ==
  LET q      == resp.body
      listed == Found(db, q.userId, q.days, now)
      data   == resp.res.data
  IN  (resp.op = "period" /\ q.period = "week")
      => \A a, b \in listed :
           (a # b /\ \A z \in {0, tz} : WeekOf(db[a].date, z) = WeekOf(db[b].date, z))
           => \E z \in {0, tz} :
                LET w == WeekOf(db[a].date, z)
                IN  /\ SundayOf(w) \in DOMAIN data
                    /\ data[SundayOf(w)] =
                         reduce(db, {c \in listed : WeekOf(db[c].date, z) = w})

\* the motorized modes, each with a fallback rate above 0
RatedModes == {"car", "bus", "train", "plane", "motorcycle"}

\* C12: when a valid commute activity (distance d >= 0, mode m among car,
\* bus, train, plane, motorcycle) is submitted to create and the remote call
\* fails, the request is answered 201 and the record it stored holds
\* co2e = d x fallback rate(m); distance 50 by train stores 2.05.
C12_CreateStoresFallback ==
  LET b == resp.body
  IN  (/\ resp.op = "create"
       /\ b.activityType = "commute"
       /\ IsAmount(b.distance)
       /\ b.transportMode \in RatedModes
       /\ resp.remote \in RemoteFailures)
      => /\ resp.res.status = 201
         /\ resp.wrote
         /\ resp.id \in DOMAIN db
         /\ db[resp.id].co2e = NumV(Mul(SpecRate(b.transportMode), b.distance.num))

\* C13: a calculate-only request, valid or invalid, leaves the set of
\* stored activity records and every field of each record unchanged, whatever
\* requests came before it and whatever updates are in flight.
C13_CalculateLeavesStore ==
  [][(\E b \in CreateBodies, r \in CrudRemotes : Calculate(b, r))
       => (db' = db /\ nextId' = nextId /\ inflight' = inflight)]_vars

\* a calculate-only request answered 200 over a store that holds a record,
\* while an update is in flight
C13_Witness ==
  /\ resp.op = "calculate"
  /\ resp.res.status = 200
  /\ DOMAIN db # {}
  /\ \E s \in 1 .. MaxInflight : inflight[s] # Idle

\* the estimator's result for a record's kind applied to that kind's fields
EstimateOf(v, doc, r) ==
  CASE doc.activityType = "commute" ->
         calculateCommuteEmissions(v, doc.distance, doc.transportMode, r).ret
    [] doc.activityType = "food" ->
         calculateFoodEmissions(v, doc.foodType, doc.quantity, doc.unit).ret
    [] OTHER ->
         calculateElectricityEmissions(v, doc.energyConsumed, doc.energyUnit, r).ret

\* the remote behaviour an update request met; any when it issued no call
RemoteOf(r) == IF r = "none" THEN "ok" ELSE r

\* the body supplies a kind-relevant field
SuppliesRelevantField(b) ==
  \/ \E q \in {b.distance, b.quantity, b.energyConsumed} : q # Undefined
  \/ \E f \in {b.transportMode, b.foodType, b.unit, b.energyUnit} : f # UNDEF

\* the body changes the kind of the record it is applied to
ChangesKind(b, doc) == b.activityType \in Kinds /\ b.activityType # doc.activityType

\* C14: after a successful update request (no other write to the record
\* between its read and its write) that changes the kind or supplies a
\* kind-relevant field, the stored co2e is the estimator's result for the
\* record's resulting kind and that kind's resulting fields; after one that
\* touches neither, the stored co2e is what it was.
C14_UpdateKeepsCo2eInStep ==
  (/\ resp.op = "update"
   /\ resp.res.status = 200
   /\ resp.activity = resp.replaced)
  => IF ChangesKind(resp.body, resp.replaced) \/ SuppliesRelevantField(resp.body)
     THEN db[resp.id].co2e
            = NumV(EstimateOf(version, db[resp.id], RemoteOf(resp.remote)))
     ELSE db[resp.id].co2e = resp.replaced.co2e

\* C15: every invocation of an estimate operation issues at most one remote
\* call, also when the call fails (no retry); the food estimate issues none;
\* a commute (motorized mode) or electricity estimate with valid input
\* issues its one call on every invocation, whatever happened to the remote
\* calls of earlier invocations.
C15_OneRemoteCallPerInvocation ==
  LET b == resp.body
  IN  /\ resp.res.calls <= 1
      /\ \A s \in 1 .. MaxInflight : inflight[s] # Idle => inflight[s].calls <= 1
      /\ resp.op \in {"calculate", "create"}
         => /\ b.activityType = "food" => resp.res.calls = 0
            /\ (/\ b.activityType = "commute"
                /\ IsAmount(b.distance)
                /\ b.transportMode \in RatedModes) => resp.res.calls = 1
            /\ (/\ b.activityType = "electricity"
                /\ IsAmount(b.energyConsumed)) => resp.res.calls = 1

\* the first record was stored with the fallback value of a failed remote
\* call (50 km by train: 2.05), and a later create request with valid input
\* issued its remote call again
C15_Witness ==
  /\ 1 \in DOMAIN db
  /\ db[1].activityType = "commute"
  /\ db[1].co2e = NumV(Rat(205, 100))
  /\ resp.op = "create"
  /\ resp.id = 2
  /\ resp.body.activityType \in {"commute", "electricity"}
  /\ resp.res.calls = 1

\* the quantity field of a record's kind
QuantityOf(doc) ==
  CASE doc.activityType = "commute" -> doc.distance
    [] doc.activityType = "food"    -> doc.quantity
    [] OTHER                        -> doc.energyConsumed

\* C16: when two update requests on one activity interleave (the record was
\* written by the other between this one's read and its write), then once
\* both have completed the stored co2e is the estimator's result for the
\* stored kind applied to that kind's stored fields, under some behaviour of
\* the remote service.  (Both requests recalculate: no co2e comes from a
\* body, and the stored quantity of the kind is a number.)
C16_RacingUpdatesKeepCo2e ==
  (/\ \A s \in 1 .. MaxInflight : inflight[s] = Idle
   /\ resp.op = "update"
   /\ resp.res.status = 200
   /\ resp.activity # resp.replaced
   /\ db[resp.id].derived
   /\ IsAmount(QuantityOf(db[resp.id])))
  => \E r \in RemoteOutcomes :
       db[resp.id].co2e = NumV(EstimateOf(version, db[resp.id], r))

\* an identifier that was given to a record and is no longer stored
Deleted(id) == id < nextId /\ id \notin DOMAIN db

\* the answer of a write of an update (not of its read)
IsWriteAnswer == resp.op = "update" /\ "activity" \in DOMAIN resp

\* C17: once a delete request for an activity has succeeded the activity is
\* absent from the store in every later state (an update that read the
\* record before the delete and writes after it does not create it again),
\* and a get, update or delete request for that identifier that starts
\* later is answered 404.
C17_DeletedStaysDeleted ==
  /\ [][\A id \in Ids : Deleted(id) => Deleted(id)']_vars
  /\ []((/\ resp.op \in {"get", "update", "delete"}
          /\ Deleted(resp.id)
          /\ ~IsWriteAnswer
          /\ ~(resp.op = "delete" /\ resp.wrote))
         => resp.res.status = 404)

\* an update read the record, the record was deleted, and the update's
\* write has been answered
C17_Witness ==
  /\ IsWriteAnswer
  /\ Deleted(resp.id)
  /\ resp.activity # NewDocument
  /\ resp.res.status = 500

====
